---------------------------- MODULE Spec2Model ----------------------------
(***************************************************************************)
(* A model of the record store of src/main.py: the access gate, the        *)
(* handlers of Employee, Trucker and Document, and the archive tables      *)
(* they feed.                                                              *)
(*                                                                         *)
(* A handler is an operator from the store and the request to the store    *)
(* it leaves and the response it gives.  Every handler is an `async def`   *)
(* without an await, so one worker process runs a request to its end:      *)
(* Spec takes one step per request.  Several worker processes share the    *)
(* store: SpecWorkers splits a writing handler into its queries and its    *)
(* commit, which the steps of another worker may separate.                 *)
(***************************************************************************)
EXTENDS Integers, Sequences, FiniteSets, TLC

VARIABLES
    db,        \* the store: the live tables, the archive tables, next_id
    today,     \* datetime.date.today()
    sessions   \* SpecWorkers: per worker process, the request it is serving

vars == <<db, today, sessions>>

(***************************************************************************)
(* Bounds of the model.                                                    *)
(***************************************************************************)
\* rows inserted into the live tables over a run, all tables together
MaxRows == 2
\* the last day of a run; the first is day 1
MaxDay == 2
\* SpecGrowth: the employees hired in one month, and the months of a run
MaxCount == 6
MaxMonth == 3

(***************************************************************************)
(* Values.  None is Python's None in a text column, NoDate and NoId in a   *)
(* date and in an integer column.                                          *)
(***************************************************************************)
None   == "None"
NoDate == 0
NoId   == 0

HTTP_200_OK           == 200
HTTP_204_NO_CONTENT   == 204
HTTP_400_BAD_REQUEST  == 400
HTTP_401_UNAUTHORIZED == 401
HTTP_403_FORBIDDEN    == 403
HTTP_404_NOT_FOUND    == 404
\* what the framework answers when a handler lets an exception escape
HTTP_500_INTERNAL_SERVER_ERROR == 500

(***************************************************************************)
(* The access gate, lines 66-93.  A token is absent, invalid (malformed,   *)
(* expired, wrongly signed: jwt.decode raises JWTError) or valid with a    *)
(* subject.                                                                *)
(***************************************************************************)
UserTable ==
    { [id |-> 1, username |-> "root",  is_active |-> TRUE,  is_admin |-> TRUE],
      [id |-> 2, username |-> "staff", is_active |-> TRUE,  is_admin |-> FALSE],
      [id |-> 3, username |-> "gone",  is_active |-> FALSE, is_admin |-> TRUE] }

NoToken      == [kind |-> "absent",  sub |-> None]
BadToken     == [kind |-> "invalid", sub |-> None]
TokenOf(sub) == [kind |-> "valid",   sub |-> sub]

\* every kind of credential a request can carry
Tokens ==
    { NoToken, BadToken, TokenOf(None), TokenOf("ghost"),
      TokenOf("root"), TokenOf("staff"), TokenOf("gone") }

NoUser == [id |-> NoId, username |-> None, is_active |-> FALSE, is_admin |-> FALSE]

Passed(user)           == [status |-> HTTP_200_OK, detail |-> "", user |-> user]
Raised(status, detail) == [status |-> status, detail |-> detail, user |-> NoUser]

credentials_exception ==
    Raised(HTTP_401_UNAUTHORIZED, "Could not validate credentials")

get_current_user(token) ==
    IF token.kind = "absent"
    THEN Raised(HTTP_401_UNAUTHORIZED, "Not authenticated")
    ELSE IF token.kind = "invalid" THEN credentials_exception
    ELSE IF token.sub = None THEN credentials_exception
    ELSE IF ~ \E u \in UserTable : u.username = token.sub
    THEN credentials_exception
    ELSE Passed(CHOOSE u \in UserTable : u.username = token.sub)

get_current_active_user(token) ==
    LET current == get_current_user(token) IN
    IF current.status # HTTP_200_OK THEN current
    ELSE IF ~ current.user.is_active
    THEN Raised(HTTP_400_BAD_REQUEST, "Inactive user")
    ELSE current

\* the gate of an administrator route without the test of is_admin
any_active_user(token) == get_current_active_user(token)

get_current_active_admin(token) ==
    LET current == get_current_active_user(token) IN
    IF current.status # HTTP_200_OK THEN current
    ELSE IF ~ current.user.is_admin
    THEN Raised(HTTP_403_FORBIDDEN, "Not an administrator")
    ELSE current

(***************************************************************************)
(* Results.  A handler run on store d ends with the store it leaves and    *)
(* its response: the status, the detail of the HTTPException raised, and   *)
(* the rows returned, in their order.                                      *)
(***************************************************************************)
Response(status, detail, body) ==
    [status |-> status, detail |-> detail, body |-> body]

Result(d, status, detail, body) ==
    [db |-> d, resp |-> Response(status, detail, body)]

\* the gate raised: the handler's body never runs
Refuse(d, auth) == Result(d, auth.status, auth.detail, <<>>)

\* the body raised HTTPException before any write
Fail(d, status, detail) == Result(d, status, detail, <<>>)

\* db.commit() raised: the session is rolled back, the exception escapes
IntegrityError(d) ==
    Result(d, HTTP_500_INTERNAL_SERVER_ERROR, "IntegrityError", <<>>)

\* db.query(Model).filter(Model.id == id).first(), as a set of 0 or 1 rows
\* a text that an if statement takes for false: None and the empty string
Falsy(text) == text \in { None, "" }

Lookup(table, id) == { r \in table : r.id = id }

\* the rows of a query in the store's order, that of the primary key
RECURSIVE Rows(_)
Rows(table) ==
    IF table = {} THEN <<>>
    ELSE LET first == CHOOSE r \in table : \A x \in table : r.id <= x.id IN
         <<first>> \o Rows(table \ {first})

\* a full replacement: the names that the payload leaves out are reset
Overwrite(row, update_data) ==
    [f \in DOMAIN row |->
        IF f \in DOMAIN update_data THEN update_data[f]
        ELSE IF f \in { "first_name", "last_name", "file_path" } THEN None
        ELSE row[f]]

\* setattr(row, key, value) for every key of the payload
Merge(row, update_data) ==
    [f \in DOMAIN row |->
        IF f \in DOMAIN update_data THEN update_data[f] ELSE row[f]]

\* the archive tables' own primary key: their rows are only ever added
Stored(archived, table) ==
    [f \in DOMAIN archived \cup {"id"} |->
        IF f = "id" THEN Cardinality(table) + 1 ELSE archived[f]]

(***************************************************************************)
(* Employees, lines 146-202.                                               *)
(***************************************************************************)
\* the unique index on employees.email
EmployeeIndex(row, table) ==
    \A e \in table : e.id # row.id => e.email # row.email

\* models.Employee(**employee.model_dump()) once flushed: the store gives
\* the identity and the column defaults
NewEmployee(d, employee) ==
    [id |-> d.next_id.employees,
     first_name |-> employee.first_name, last_name |-> employee.last_name,
     email |-> employee.email, phone_number |-> employee.phone_number,
     position |-> employee.position,
     is_active |-> TRUE, registration_date |-> today]

\* lines 151-155: db.add(new_employee); db.commit(); db.refresh(new_employee)
insert_employee(d, employee) ==
    LET row == NewEmployee(d, employee) IN
    IF ~ EmployeeIndex(row, d.employees) THEN IntegrityError(d)
    ELSE Result([d EXCEPT !.employees = @ \cup {row},
                          !.next_id.employees = @ + 1],
                HTTP_200_OK, "", <<row>>)

\* lines 147-150: the gate and the query for the email
create_employee_check(d, token, employee) ==
    LET auth == get_current_active_admin(token) IN
    IF auth.status # HTTP_200_OK THEN Refuse(d, auth)
    ELSE IF \E e \in d.employees : e.email = employee.email
    THEN Fail(d, HTTP_400_BAD_REQUEST,
              "Employee with this email already exists")
    ELSE Result(d, HTTP_200_OK, "", <<>>)

create_employee(d, token, employee) ==
    LET check == create_employee_check(d, token, employee) IN
    IF check.resp.status # HTTP_200_OK THEN check
    ELSE insert_employee(d, employee)

read_employee(d, token, employee_id) ==
    LET auth == get_current_active_user(token)
        employee == Lookup(d.employees, employee_id) IN
    IF auth.status # HTTP_200_OK THEN Refuse(d, auth)
    ELSE IF employee = {}
    THEN Fail(d, HTTP_404_NOT_FOUND, "Employee not found")
    ELSE Result(d, HTTP_200_OK, "", Rows(employee))

update_employee(d, token, employee_id, update_data) ==
    LET auth == get_current_active_admin(token)
        db_employee == Lookup(d.employees, employee_id) IN
    IF auth.status # HTTP_200_OK THEN Refuse(d, auth)
    ELSE IF db_employee = {}
    THEN Fail(d, HTTP_404_NOT_FOUND, "Employee not found")
    ELSE LET old == CHOOSE e \in db_employee : TRUE
             new == Merge(old, update_data) IN
         IF ~ EmployeeIndex(new, d.employees) THEN IntegrityError(d)
         ELSE Result([d EXCEPT !.employees = (@ \ {old}) \cup {new}],
                     HTTP_200_OK, "", <<new>>)

\* models.ArchivedEmployee(...) of lines 187-198
ArchivedEmployee(db_employee, reason) ==
    [original_id |-> db_employee.id,
     first_name |-> db_employee.first_name,
     last_name |-> db_employee.last_name,
     email |-> db_employee.email,
     phone_number |-> db_employee.phone_number,
     position |-> db_employee.position,
     is_active |-> FALSE,
     registration_date |-> db_employee.registration_date,
     archive_date |-> today,
     archived_reason |-> reason]

\* the snapshot without the DELETE: a copy where the handler moves
copy_employee(d, archived, db_employee) ==
    Result([d EXCEPT
               !.archived_employees =
                   @ \cup {Stored(archived, d.archived_employees)}],
           HTTP_204_NO_CONTENT, "", <<>>)

\* lines 199-202: db.add(archived_employee); db.delete(db_employee);
\* db.commit(): one transaction holding the INSERT and the DELETE
archive_employee(d, archived, db_employee) ==
    Result([d EXCEPT
               !.archived_employees =
                   @ \cup {Stored(archived, d.archived_employees)},
               !.employees = @ \ Lookup(d.employees, db_employee.id)],
           HTTP_204_NO_CONTENT, "", <<>>)

\* lines 183-186: the gate and the query for the row, which it returns
deactivate_employee_check(d, token, employee_id) ==
    LET auth == get_current_active_admin(token)
        db_employee == Lookup(d.employees, employee_id) IN
    IF auth.status # HTTP_200_OK THEN Refuse(d, auth)
    ELSE IF db_employee = {}
    THEN Fail(d, HTTP_404_NOT_FOUND, "Employee not found")
    ELSE Result(d, HTTP_200_OK, "", Rows(db_employee))

deactivate_employee(d, token, employee_id, reason) ==
    LET check == deactivate_employee_check(d, token, employee_id) IN
    IF check.resp.status # HTTP_200_OK THEN check
    ELSE LET row == check.resp.body[1] IN
         archive_employee(d, ArchivedEmployee(row, reason), row)

(***************************************************************************)
(* Truckers, lines 205-272.                                                *)
(***************************************************************************)
\* the unique indexes on truckers.email, .driver_license_number and
\* .truck_id_number; a NULL never collides
TruckerIndex(row, table) ==
    \A t \in table : t.id # row.id =>
        /\ t.driver_license_number # row.driver_license_number
        /\ row.email # None => t.email # row.email
        /\ row.truck_id_number # None =>
               t.truck_id_number # row.truck_id_number

NewTrucker(d, trucker) ==
    [id |-> d.next_id.truckers,
     first_name |-> trucker.first_name, last_name |-> trucker.last_name,
     email |-> trucker.email, phone_number |-> trucker.phone_number,
     driver_license_number |-> trucker.driver_license_number,
     province_of_issue |-> trucker.province_of_issue,
     truck_id_number |-> trucker.truck_id_number,
     company_name |-> trucker.company_name,
     is_active |-> TRUE, registration_date |-> today]

\* lines 218-222
insert_trucker(d, trucker) ==
    LET row == NewTrucker(d, trucker) IN
    IF ~ TruckerIndex(row, d.truckers) THEN IntegrityError(d)
    ELSE Result([d EXCEPT !.truckers = @ \cup {row},
                          !.next_id.truckers = @ + 1],
                HTTP_200_OK, "", <<row>>)

\* lines 206-217: the gate and the three queries, in their order; the
\* queries for the email and the truck id run when the value is truthy
create_trucker_check(d, token, trucker) ==
    LET auth == get_current_active_admin(token) IN
    IF auth.status # HTTP_200_OK THEN Refuse(d, auth)
    ELSE IF /\ ~ Falsy(trucker.email)
            /\ \E t \in d.truckers : t.email = trucker.email
    THEN Fail(d, HTTP_400_BAD_REQUEST,
              "Trucker with this email already exists")
    ELSE IF \E t \in d.truckers :
                t.driver_license_number = trucker.driver_license_number
    THEN Fail(d, HTTP_400_BAD_REQUEST,
              "Trucker with this driver license number already exists")
    ELSE IF /\ ~ Falsy(trucker.truck_id_number)
            /\ \E t \in d.truckers :
                   t.truck_id_number = trucker.truck_id_number
    THEN Fail(d, HTTP_400_BAD_REQUEST,
              "Trucker with this truck ID number already exists")
    ELSE Result(d, HTTP_200_OK, "", <<>>)

create_trucker(d, token, trucker) ==
    LET check == create_trucker_check(d, token, trucker) IN
    IF check.resp.status # HTTP_200_OK THEN check
    ELSE insert_trucker(d, trucker)

read_trucker(d, token, trucker_id) ==
    LET auth == get_current_active_user(token)
        trucker == Lookup(d.truckers, trucker_id) IN
    IF auth.status # HTTP_200_OK THEN Refuse(d, auth)
    ELSE IF trucker = {}
    THEN Fail(d, HTTP_404_NOT_FOUND, "Trucker not found")
    ELSE Result(d, HTTP_200_OK, "", Rows(trucker))

update_trucker(d, token, trucker_id, update_data) ==
    LET auth == get_current_active_admin(token)
        db_trucker == Lookup(d.truckers, trucker_id) IN
    IF auth.status # HTTP_200_OK THEN Refuse(d, auth)
    ELSE IF db_trucker = {}
    THEN Fail(d, HTTP_404_NOT_FOUND, "Trucker not found")
    ELSE LET old == CHOOSE t \in db_trucker : TRUE
             new == Merge(old, update_data) IN
         IF ~ TruckerIndex(new, d.truckers) THEN IntegrityError(d)
         ELSE Result([d EXCEPT !.truckers = (@ \ {old}) \cup {new}],
                     HTTP_200_OK, "", <<new>>)

\* models.ArchivedTrucker(...) of lines 254-268
ArchivedTrucker(db_trucker, reason) ==
    [original_id |-> db_trucker.id,
     first_name |-> db_trucker.first_name,
     last_name |-> db_trucker.last_name,
     email |-> db_trucker.email,
     phone_number |-> db_trucker.phone_number,
     driver_license_number |-> db_trucker.driver_license_number,
     province_of_issue |-> db_trucker.province_of_issue,
     truck_id_number |-> db_trucker.truck_id_number,
     company_name |-> db_trucker.company_name,
     is_active |-> FALSE,
     registration_date |-> db_trucker.registration_date,
     archive_date |-> today,
     archived_reason |-> reason]

\* the INSERT of the snapshot committed without the DELETE of the row
copy_trucker(d, archived, db_trucker) ==
    Result([d EXCEPT
               !.archived_truckers =
                   @ \cup {Stored(archived, d.archived_truckers)}],
           HTTP_204_NO_CONTENT, "", <<>>)

\* lines 269-272: one transaction holding the INSERT and the DELETE
archive_trucker(d, archived, db_trucker) ==
    Result([d EXCEPT
               !.archived_truckers =
                   @ \cup {Stored(archived, d.archived_truckers)},
               !.truckers = @ \ Lookup(d.truckers, db_trucker.id)],
           HTTP_204_NO_CONTENT, "", <<>>)

\* lines 250-253
deactivate_trucker_check(d, token, trucker_id) ==
    LET auth == get_current_active_admin(token)
        db_trucker == Lookup(d.truckers, trucker_id) IN
    IF auth.status # HTTP_200_OK THEN Refuse(d, auth)
    ELSE IF db_trucker = {}
    THEN Fail(d, HTTP_404_NOT_FOUND, "Trucker not found")
    ELSE Result(d, HTTP_200_OK, "", Rows(db_trucker))

deactivate_trucker(d, token, trucker_id, reason) ==
    LET check == deactivate_trucker_check(d, token, trucker_id) IN
    IF check.resp.status # HTTP_200_OK THEN check
    ELSE LET row == check.resp.body[1] IN
         archive_trucker(d, ArchivedTrucker(row, reason), row)

(***************************************************************************)
(* Documents, lines 275-343.                                               *)
(***************************************************************************)
\* models.Document(**document.model_dump()) once flushed
NewDocument(d, document) ==
    [id |-> d.next_id.documents,
     document_type |-> document.document_type,
     file_path |-> document.file_path,
     upload_date |-> today,
     is_verified |-> FALSE, verification_date |-> NoDate,
     verified_by |-> None,
     employee_id |-> document.employee_id,
     trucker_id |-> document.trucker_id]

\* an id is tested by its truth value: None and 0 both skip the query
create_document(d, token, document) ==
    LET auth == get_current_active_user(token) IN
    IF auth.status # HTTP_200_OK THEN Refuse(d, auth)
    ELSE IF /\ document.employee_id # NoId
            /\ Lookup(d.employees, document.employee_id) = {}
    THEN Fail(d, HTTP_404_NOT_FOUND, "Employee not found")
    ELSE IF /\ document.trucker_id # NoId
            /\ Lookup(d.truckers, document.trucker_id) = {}
    THEN Fail(d, HTTP_404_NOT_FOUND, "Trucker not found")
    ELSE LET row == NewDocument(d, document) IN
         Result([d EXCEPT !.documents = @ \cup {row},
                          !.next_id.documents = @ + 1],
                HTTP_200_OK, "", <<row>>)

read_document(d, token, document_id) ==
    LET auth == get_current_active_user(token)
        document == Lookup(d.documents, document_id) IN
    IF auth.status # HTTP_200_OK THEN Refuse(d, auth)
    ELSE IF document = {}
    THEN Fail(d, HTTP_404_NOT_FOUND, "Document not found")
    ELSE Result(d, HTTP_200_OK, "", Rows(document))

\* lines 309-314: the verification side effect, before the merge
verification_effect(db_document, update_data) ==
    IF "is_verified" \notin DOMAIN update_data THEN db_document
    ELSE IF update_data.is_verified /\ db_document.verification_date = NoDate
    THEN [db_document EXCEPT !.verification_date = today]
    ELSE IF ~ update_data.is_verified
    THEN [db_document EXCEPT !.verification_date = NoDate,
                             !.verified_by = None]
    ELSE db_document

\* lines 308-316: the row as it is committed
updated_document(db_document, update_data) ==
    Merge(verification_effect(db_document, update_data), update_data)

update_document(d, token, document_id, update_data) ==
    LET auth == get_current_active_admin(token)
        db_document == Lookup(d.documents, document_id) IN
    IF auth.status # HTTP_200_OK THEN Refuse(d, auth)
    ELSE IF db_document = {}
    THEN Fail(d, HTTP_404_NOT_FOUND, "Document not found")
    ELSE LET old == CHOOSE x \in db_document : TRUE
             new == updated_document(old, update_data) IN
         Result([d EXCEPT !.documents = (@ \ {old}) \cup {new}],
                HTTP_200_OK, "", <<new>>)

\* models.ArchivedDocument(...) of lines 327-339
ArchivedDocument(db_document, reason) ==
    [original_id |-> db_document.id,
     document_type |-> db_document.document_type,
     file_path |-> db_document.file_path,
     upload_date |-> db_document.upload_date,
     is_verified |-> db_document.is_verified,
     verification_date |-> db_document.verification_date,
     verified_by |-> db_document.verified_by,
     employee_id |-> db_document.employee_id,
     trucker_id |-> db_document.trucker_id,
     archive_date |-> today,
     archived_reason |-> reason]

\* the archive table rewritten with the new snapshot alone
replace_snapshot(d, archived, db_document) ==
    Result([d EXCEPT
               !.archived_documents = {Stored(archived, {})},
               !.documents = @ \ Lookup(d.documents, db_document.id)],
           HTTP_204_NO_CONTENT, "", <<>>)

\* lines 340-343: one transaction holding the INSERT and the DELETE
archive_document(d, archived, db_document) ==
    Result([d EXCEPT
               !.archived_documents =
                   @ \cup {Stored(archived, d.archived_documents)},
               !.documents = @ \ Lookup(d.documents, db_document.id)],
           HTTP_204_NO_CONTENT, "", <<>>)

\* an archive that, finding no live row, snapshots the last snapshot again
archive_again(d, token, document_id, reason) ==
    LET auth == get_current_active_admin(token)
        db_document == Lookup(d.documents, document_id)
        earlier == { a \in d.archived_documents :
                       a.original_id = document_id } IN
    IF auth.status # HTTP_200_OK THEN Refuse(d, auth)
    ELSE IF db_document = {} /\ earlier = {}
    THEN Fail(d, HTTP_404_NOT_FOUND, "Document not found")
    ELSE IF db_document = {}
    THEN LET last == CHOOSE a \in earlier : TRUE IN
         Result([d EXCEPT
                    !.archived_documents =
                        @ \cup {[last EXCEPT !.id = Cardinality(
                                     d.archived_documents) + 1]}],
                HTTP_204_NO_CONTENT, "", <<>>)
    ELSE LET row == CHOOSE x \in db_document : TRUE IN
         archive_document(d, ArchivedDocument(row, reason), row)

deactivate_document(d, token, document_id, reason) ==
    LET auth == get_current_active_admin(token)
        db_document == Lookup(d.documents, document_id) IN
    IF auth.status # HTTP_200_OK THEN Refuse(d, auth)
    ELSE IF db_document = {}
    THEN Fail(d, HTTP_404_NOT_FOUND, "Document not found")
    ELSE LET row == CHOOSE x \in db_document : TRUE IN
         archive_document(d, ArchivedDocument(row, reason), row)

(***************************************************************************)
(* Users, lines 129-143.                                                   *)
(***************************************************************************)
\* a window that takes skip for the place of its first row
WindowAt(rows, skip, limit) ==
    SubSeq(rows, IF skip = 0 THEN 1 ELSE skip,
           IF skip + limit < Len(rows) THEN skip + limit ELSE Len(rows))

\* .offset(skip).limit(limit) of a query's rows
Window(rows, skip, limit) ==
    SubSeq(rows, skip + 1,
           IF skip + limit < Len(rows) THEN skip + limit ELSE Len(rows))

read_users_me(d, token) ==
    LET auth == get_current_active_user(token) IN
    IF auth.status # HTTP_200_OK THEN Refuse(d, auth)
    ELSE Result(d, HTTP_200_OK, "", <<auth.user>>)

read_user_by_id(d, token, user_id) ==
    LET auth == get_current_active_admin(token)
        user == Lookup(UserTable, user_id) IN
    IF auth.status # HTTP_200_OK THEN Refuse(d, auth)
    ELSE IF user = {} THEN Fail(d, HTTP_404_NOT_FOUND, "User not found")
    ELSE Result(d, HTTP_200_OK, "", Rows(user))

read_users(d, token, skip, limit) ==
    LET auth == get_current_active_admin(token) IN
    IF auth.status # HTTP_200_OK THEN Refuse(d, auth)
    ELSE Result(d, HTTP_200_OK, "", Window(Rows(UserTable), skip, limit))

(***************************************************************************)
(* Lists, lines 157-160, 224-227 and 291-294.                              *)
(***************************************************************************)
Active(table) == { r \in table : r.is_active }

read_employees(d, token, skip, limit) ==
    LET auth == get_current_active_user(token) IN
    IF auth.status # HTTP_200_OK THEN Refuse(d, auth)
    ELSE Result(d, HTTP_200_OK, "",
                Window(Rows(Active(d.employees)), skip, limit))

read_truckers(d, token, skip, limit) ==
    LET auth == get_current_active_user(token) IN
    IF auth.status # HTTP_200_OK THEN Refuse(d, auth)
    ELSE Result(d, HTTP_200_OK, "",
                Window(Rows(Active(d.truckers)), skip, limit))

read_documents(d, token, skip, limit) ==
    LET auth == get_current_active_user(token) IN
    IF auth.status # HTTP_200_OK THEN Refuse(d, auth)
    ELSE Result(d, HTTP_200_OK, "", Window(Rows(d.documents), skip, limit))

(***************************************************************************)
(* Search, lines 346-381.  column.ilike(f"%{query}%") compares             *)
(* lower(column) with lower('%query%') by LIKE, where % of the pattern     *)
(* stands for any run of characters and _ for any one character; a NULL    *)
(* column matches nothing.  A text is spelled out to be compared.          *)
(***************************************************************************)
Queries == { "", "smith", "L1", "_" }

\* the characters of the texts that rows and queries hold
Spell ==
    "" :> <<>> @@ "_" :> <<"_">> @@ "smith" :> <<"s", "m", "i", "t", "h">>
    @@ "Ann" :> <<"A", "n", "n">> @@ "Bob" :> <<"B", "o", "b">>
    @@ "Bea" :> <<"B", "e", "a">> @@ "Tom" :> <<"T", "o", "m">>
    @@ "Uma" :> <<"U", "m", "a">> @@ "Vic" :> <<"V", "i", "c">>
    @@ "Wes" :> <<"W", "e", "s">>
    @@ "Smith" :> <<"S", "m", "i", "t", "h">>
    @@ "Jones" :> <<"J", "o", "n", "e", "s">>
    @@ "Roy" :> <<"R", "o", "y">> @@ "Lee" :> <<"L", "e", "e">>
    @@ "ann@x" :> <<"a", "n", "n", "@", "x">>
    @@ "bob@x" :> <<"b", "o", "b", "@", "x">>
    @@ "tom@x" :> <<"t", "o", "m", "@", "x">>
    @@ "L1" :> <<"L", "1">> @@ "L2" :> <<"L", "2">> @@ "L3" :> <<"L", "3">>
    @@ "K1" :> <<"K", "1">>

\* lower() of a character
LowerCase ==
    "A" :> "a" @@ "B" :> "b" @@ "C" :> "c" @@ "D" :> "d" @@ "E" :> "e"
    @@ "F" :> "f" @@ "G" :> "g" @@ "H" :> "h" @@ "I" :> "i" @@ "J" :> "j"
    @@ "K" :> "k" @@ "L" :> "l" @@ "M" :> "m" @@ "N" :> "n" @@ "O" :> "o"
    @@ "P" :> "p" @@ "Q" :> "q" @@ "R" :> "r" @@ "S" :> "s" @@ "T" :> "t"
    @@ "U" :> "u" @@ "V" :> "v" @@ "W" :> "w" @@ "X" :> "x" @@ "Y" :> "y"
    @@ "Z" :> "z"

Fold(char) == IF char \in DOMAIN LowerCase THEN LowerCase[char] ELSE char

lower(chars) == [i \in 1 .. Len(chars) |-> Fold(chars[i])]

\* chars LIKE pattern
RECURSIVE Like(_, _)
Like(chars, pattern) ==
    IF pattern = <<>> THEN chars = <<>>
    ELSE IF Head(pattern) = "%"
    THEN \/ Like(chars, Tail(pattern))
         \/ chars # <<>> /\ Like(Tail(chars), pattern)
    ELSE /\ chars # <<>>
         /\ Head(pattern) = "_" \/ Head(pattern) = Head(chars)
         /\ Like(Tail(chars), Tail(pattern))

ILike(text, query) ==
    /\ text # None
    /\ Like(lower(Spell[text]), lower(<<"%">> \o Spell[query] \o <<"%">>))

SearchLimit == 10

EmployeeHit(emp) ==
    [type |-> "employee", id |-> emp.id,
     name |-> <<emp.first_name, emp.last_name>>,
     identifier |-> emp.email, is_active |-> emp.is_active, details |-> emp]

TruckerHit(trk) ==
    [type |-> "trucker", id |-> trk.id,
     name |-> <<trk.first_name, trk.last_name>>,
     identifier |-> trk.driver_license_number,
     is_active |-> trk.is_active, details |-> trk]

Hits(rows, Hit(_)) == [i \in 1 .. Len(rows) |-> Hit(rows[i])]

live_search(d, token, query) ==
    LET auth == get_current_active_user(token)
        employees ==
            Window(Rows({ e \in Active(d.employees) :
                            \/ ILike(e.first_name, query)
                            \/ ILike(e.last_name, query)
                            \/ ILike(e.email, query) }), 0, SearchLimit)
        truckers ==
            Window(Rows({ t \in Active(d.truckers) :
                            \/ ILike(t.first_name, query)
                            \/ ILike(t.last_name, query)
                            \/ ILike(t.email, query)
                            \/ ILike(t.driver_license_number, query)
                            \/ ILike(t.truck_id_number, query) }),
                   0, SearchLimit) IN
    IF auth.status # HTTP_200_OK THEN Refuse(d, auth)
    ELSE Result(d, HTTP_200_OK, "",
                Hits(employees, EmployeeHit) \o Hits(truckers, TruckerHit))

(***************************************************************************)
(* Analytics, lines 383-475.  A rate is kept in hundredths of a percent:   *)
(* round(part / whole * 100, 2).                                           *)
(***************************************************************************)
Rate(part, whole) ==
    IF whole > 0 THEN (2 * 10000 * part + whole) \div (2 * whole) ELSE 0

get_compliance_data(d, token) ==
    LET auth == get_current_active_user(token)
        uploaded == Cardinality(d.documents)
        verified == Cardinality({ x \in d.documents : x.is_verified }) IN
    IF auth.status # HTTP_200_OK THEN Refuse(d, auth)
    ELSE Result(d, HTTP_200_OK, "",
           << [total_employees |-> Cardinality(d.employees),
               active_employees |-> Cardinality(Active(d.employees)),
               total_truckers |-> Cardinality(d.truckers),
               active_truckers |-> Cardinality(Active(d.truckers)),
               documents_uploaded |-> uploaded,
               documents_verified |-> verified,
               unverified_documents |-> uploaded - verified] >>)

\* strftime('%Y-%m', date): a month of the model has two days
MonthOf(date) == (date + 1) \div 2

\* the groups of lines 404-411 in the order of their dates
RECURSIVE Buckets(_, _)
Buckets(table, months) ==
    IF months = {} THEN <<>>
    ELSE LET m == CHOOSE x \in months : \A y \in months : x <= y IN
         << [month |-> m,
             count |-> Cardinality(
                 { e \in table : MonthOf(e.registration_date) = m })] >>
         \o Buckets(table, months \ {m})

RECURSIVE Sum(_)
Sum(terms) == IF terms = <<>> THEN 0 ELSE Head(terms) + Sum(Tail(terms))

\* int(x) of a quotient: toward zero
Trunc(num, den) ==
    IF num >= 0 THEN num \div den ELSE -((-num) \div den)

\* lines 416-422: the least-squares line through (i - 1, count of bucket i)
\* read at the next index, then max(0, int(...))
Projection(monthly_growth) ==
    LET n   == Len(monthly_growth)
        x   == [i \in 1 .. n |-> i - 1]
        y   == [i \in 1 .. n |-> monthly_growth[i].count]
        sx  == Sum(x)
        sy  == Sum(y)
        sxy == Sum([i \in 1 .. n |-> x[i] * y[i]])
        sxx == Sum([i \in 1 .. n |-> x[i] * x[i]])
        den == n * sxx - sx * sx
        \* intercept + slope * n, over the common denominator n * den
        num == sy * den + (n * sxy - sx * sy) * (n * n - sx)
        value == Trunc(num, n * den) IN
    IF value > 0 THEN value ELSE 0

get_employee_growth(d, token) ==
    LET auth == get_current_active_user(token)
        monthly_growth ==
            Buckets(d.employees,
                    { MonthOf(e.registration_date) : e \in d.employees })
        counts ==
            [i \in 1 .. Len(monthly_growth) |-> monthly_growth[i].count] IN
    IF auth.status # HTTP_200_OK THEN Refuse(d, auth)
    ELSE Result(d, HTTP_200_OK, "",
           << [monthly_growth |-> monthly_growth,
               total_employees |-> Cardinality(d.employees),
               \* line 414: sum / len as the pair of the two, 0.0 as 0 / 1
               average_monthly_growth |->
                   IF monthly_growth = <<>> THEN <<0, 1>>
                   ELSE <<Sum(counts), Len(monthly_growth)>>,
               projected_next_month |->
                   IF Len(monthly_growth) >= 2
                   THEN <<Projection(monthly_growth)>> ELSE <<>>] >>)

\* func.coalesce(Trucker.company_name, 'Independent')
Company(trk) ==
    IF trk.company_name = None THEN "Independent" ELSE trk.company_name

get_trucker_distribution(d, token) ==
    LET auth == get_current_active_user(token)
        total_truckers == Cardinality(d.truckers)
        CountOf(company) ==
            Cardinality({ t \in d.truckers : Company(t) = company })
        companies == { Company(t) : t \in d.truckers } IN
    IF auth.status # HTTP_200_OK THEN Refuse(d, auth)
    ELSE Result(d, HTTP_200_OK, "",
           << [province_distribution |->
                   { <<p, Cardinality({ t \in d.truckers :
                                          t.province_of_issue = p })>> :
                       p \in { t.province_of_issue : t \in d.truckers } },
               company_distribution |->
                   { [company_name |-> c, count |-> CountOf(c),
                      percentage |-> Rate(CountOf(c), total_truckers)] :
                       c \in companies },
               \* the first of these in the order the store groups them
               most_common_type |->
                   { c \in companies :
                       \A other \in companies : CountOf(other) <= CountOf(c) }
              ] >>)

get_business_impact(d, token) ==
    LET auth == get_current_active_user(token)
        archived_employees_count == Cardinality(d.archived_employees)
        archived_truckers_count == Cardinality(d.archived_truckers) IN
    IF auth.status # HTTP_200_OK THEN Refuse(d, auth)
    ELSE Result(d, HTTP_200_OK, "",
           << [employee_churn_rate |->
                   Rate(archived_employees_count,
                        Cardinality(d.employees) + archived_employees_count),
               trucker_churn_rate |->
                   Rate(archived_truckers_count,
                        Cardinality(d.truckers) + archived_truckers_count),
               document_compliance_rate |->
                   Rate(Cardinality({ x \in d.documents : x.is_verified }),
                        Cardinality(d.documents)
                            + Cardinality(d.archived_documents))] >>)

(***************************************************************************)
(* Exports, lines 478-496: a line of the file per row, inactive rows too.  *)
(***************************************************************************)
export_employees_to_csv(d, token) ==
    LET auth == get_current_active_admin(token)
        employees == Rows(d.employees)
        Line(emp) ==
            <<emp.id, emp.first_name, emp.last_name, emp.email,
              emp.phone_number, emp.position, emp.is_active,
              emp.registration_date>> IN
    IF auth.status # HTTP_200_OK THEN Refuse(d, auth)
    ELSE Result(d, HTTP_200_OK, "", Hits(employees, Line))

export_truckers_to_csv(d, token) ==
    LET auth == get_current_active_admin(token)
        truckers == Rows(d.truckers)
        Line(trk) ==
            <<trk.id, trk.first_name, trk.last_name, trk.email,
              trk.phone_number, trk.driver_license_number,
              trk.province_of_issue, trk.truck_id_number, trk.company_name,
              trk.is_active, trk.registration_date>> IN
    IF auth.status # HTTP_200_OK THEN Refuse(d, auth)
    ELSE Result(d, HTTP_200_OK, "", Hits(truckers, Line))

(***************************************************************************)
(* The requests of a run.                                                  *)
(***************************************************************************)
EmployeeCreates ==
    { [first_name |-> "Ann", last_name |-> "Smith", email |-> "ann@x",
       phone_number |-> "555-1", position |-> "clerk"],
      [first_name |-> "Bob", last_name |-> "Jones", email |-> "bob@x",
       phone_number |-> "555-2", position |-> "driver"] }

EmployeeUpdates ==
    { [email |-> "bob@x"],
      [first_name |-> "Bea", is_active |-> FALSE] }

TruckerCreates ==
    { [first_name |-> "Tom", last_name |-> "Smith", email |-> "tom@x",
       phone_number |-> "555-3", driver_license_number |-> "L1",
       province_of_issue |-> "ON", truck_id_number |-> "K1",
       company_name |-> "Acme"],
      [first_name |-> "Uma", last_name |-> "Roy", email |-> None,
       phone_number |-> "555-4", driver_license_number |-> "L1",
       province_of_issue |-> "QC", truck_id_number |-> "",
       company_name |-> None],
      [first_name |-> "Vic", last_name |-> "Lee", email |-> None,
       phone_number |-> "555-5", driver_license_number |-> "L2",
       province_of_issue |-> "QC", truck_id_number |-> "K1",
       company_name |-> None],
      [first_name |-> "Wes", last_name |-> "Lee", email |-> None,
       phone_number |-> "555-6", driver_license_number |-> "L3",
       province_of_issue |-> "QC", truck_id_number |-> "",
       company_name |-> None] }

TruckerUpdates ==
    { [driver_license_number |-> "L2", is_active |-> FALSE] }

DocumentCreates ==
    { [document_type |-> "licence", file_path |-> "a.pdf",
       employee_id |-> e, trucker_id |-> t] :
          e \in {NoId, 1}, t \in {NoId, 1} }

DocumentUpdates ==
    { [is_verified |-> TRUE, verified_by |-> "root"],
      [is_verified |-> FALSE],
      [is_verified |-> FALSE, verified_by |-> "root"],
      [verification_date |-> 1] }

\* the accounts whose requests a run serves: an administrator and a user
Callers == { TokenOf("root"), TokenOf("staff") }

Reasons == { "Deactivated" }

\* skip and limit of a list: the defaults, and a window inside the list
Pages == { [skip |-> 0, limit |-> 100], [skip |-> 1, limit |-> 1] }

Ids == 1 .. MaxRows

\* rows inserted into the live tables so far, all tables together
Inserted(d) ==
    d.next_id.employees + d.next_id.truckers + d.next_id.documents - 3

(***************************************************************************)
(* One request at a time: the store takes what the handler leaves.         *)
(***************************************************************************)
Init ==
    /\ db = [employees |-> {}, archived_employees |-> {},
             truckers |-> {}, archived_truckers |-> {},
             documents |-> {}, archived_documents |-> {},
             next_id |-> [employees |-> 1, truckers |-> 1, documents |-> 1]]
    /\ today = 1
    /\ sessions = <<>>

Serve(result) ==
    /\ Inserted(result.db) <= MaxRows
    /\ db' = result.db
    /\ UNCHANGED <<today, sessions>>

CreateEmployee ==
    \E token \in Callers, employee \in EmployeeCreates :
        Serve(create_employee(db, token, employee))
ReadEmployee ==
    \E token \in Callers, id \in Ids : Serve(read_employee(db, token, id))
UpdateEmployee ==
    \E token \in Callers, id \in Ids, update_data \in EmployeeUpdates :
        Serve(update_employee(db, token, id, update_data))
DeactivateEmployee ==
    \E token \in Callers, id \in Ids, reason \in Reasons :
        Serve(deactivate_employee(db, token, id, reason))

CreateTrucker ==
    \E token \in Callers, trucker \in TruckerCreates :
        Serve(create_trucker(db, token, trucker))
ReadTrucker ==
    \E token \in Callers, id \in Ids : Serve(read_trucker(db, token, id))
UpdateTrucker ==
    \E token \in Callers, id \in Ids, update_data \in TruckerUpdates :
        Serve(update_trucker(db, token, id, update_data))
DeactivateTrucker ==
    \E token \in Callers, id \in Ids, reason \in Reasons :
        Serve(deactivate_trucker(db, token, id, reason))

CreateDocument ==
    \E token \in Callers, document \in DocumentCreates :
        Serve(create_document(db, token, document))
ReadDocument ==
    \E token \in Callers, id \in Ids : Serve(read_document(db, token, id))
UpdateDocument ==
    \E token \in Callers, id \in Ids, update_data \in DocumentUpdates :
        Serve(update_document(db, token, id, update_data))
DeactivateDocument ==
    \E token \in Callers, id \in Ids, reason \in Reasons :
        Serve(deactivate_document(db, token, id, reason))

\* the handlers that only read
Report ==
    \E token \in Callers :
        \/ Serve(read_users_me(db, token))
        \/ \E id \in Ids : Serve(read_user_by_id(db, token, id))
        \/ \E page \in Pages :
               \/ Serve(read_users(db, token, page.skip, page.limit))
               \/ Serve(read_employees(db, token, page.skip, page.limit))
               \/ Serve(read_truckers(db, token, page.skip, page.limit))
               \/ Serve(read_documents(db, token, page.skip, page.limit))
        \/ \E query \in Queries : Serve(live_search(db, token, query))
        \/ Serve(get_compliance_data(db, token))
        \/ Serve(get_employee_growth(db, token))
        \/ Serve(get_trucker_distribution(db, token))
        \/ Serve(get_business_impact(db, token))
        \/ Serve(export_employees_to_csv(db, token))
        \/ Serve(export_truckers_to_csv(db, token))

\* the date changes between two requests
Midnight ==
    /\ today < MaxDay
    /\ today' = today + 1
    /\ UNCHANGED <<db, sessions>>

Next ==
    \/ CreateEmployee \/ ReadEmployee \/ UpdateEmployee \/ DeactivateEmployee
    \/ CreateTrucker \/ ReadTrucker \/ UpdateTrucker \/ DeactivateTrucker
    \/ CreateDocument \/ ReadDocument \/ UpdateDocument \/ DeactivateDocument
    \/ Report

Spec == Init /\ [][Next]_vars

\* the same requests over the days of a run
SpecDays == Init /\ [][Next \/ Midnight]_vars

(***************************************************************************)
(* The growth report over the months of a run: employees are hired day by  *)
(* day, at most MaxCount in a month, and the report is read in between.    *)
(***************************************************************************)
\* the payload of the next hire: an email that no row holds yet
Applicant(d) ==
    [first_name |-> "Ann", last_name |-> "Smith",
     email |-> ToString(d.next_id.employees) \o "@x",
     phone_number |-> "555-1", position |-> "clerk"]

HiredIn(d, month) ==
    { e \in d.employees : MonthOf(e.registration_date) = month }

Hire ==
    \E token \in Callers :
        /\ Cardinality(HiredIn(db, MonthOf(today))) < MaxCount
        /\ db' = create_employee(db, token, Applicant(db)).db
        /\ UNCHANGED <<today, sessions>>

NextDay ==
    /\ today < 2 * MaxMonth
    /\ today' = today + 1
    /\ UNCHANGED <<db, sessions>>

GrowthReport ==
    \E token \in Callers :
        /\ db' = get_employee_growth(db, token).db
        /\ UNCHANGED <<today, sessions>>

NextGrowth == Hire \/ NextDay \/ GrowthReport

SpecGrowth == Init /\ [][NextGrowth]_vars


(***************************************************************************)
(* Several server processes on one store.  A handler has no await in its   *)
(* body, so one process serves it whole; another process may commit        *)
(* between a handler's queries and its own commit.  A request is two       *)
(* steps: the gate and the queries, which give an answer at once or leave  *)
(* the request open, and the commit of what the handler has added to its   *)
(* session.                                                                *)
(***************************************************************************)
Workers == { "w1", "w2" }

Idle == [op |-> "idle"]

InitWorkers ==
    /\ db = [employees |-> {}, archived_employees |-> {},
             truckers |-> {}, archived_truckers |-> {},
             documents |-> {}, archived_documents |-> {},
             next_id |-> [employees |-> 1, truckers |-> 1, documents |-> 1]]
    /\ today = 1
    /\ sessions = [w \in Workers |-> Idle]

\* the queries of a request: it is refused, or stays open with what it read
Open(w, check, request) ==
    /\ sessions[w] = Idle
    /\ sessions' = [sessions EXCEPT
                       ![w] = IF check.resp.status = HTTP_200_OK
                              THEN request ELSE Idle]
    /\ UNCHANGED <<db, today>>

\* db.commit() of an open request
Commit(w, result) ==
    /\ Inserted(result.db) <= MaxRows
    /\ db' = result.db
    /\ sessions' = [sessions EXCEPT ![w] = Idle]
    /\ UNCHANGED today

BeginCreateEmployee(w) ==
    \E token \in Callers, employee \in EmployeeCreates :
        Open(w, create_employee_check(db, token, employee),
             [op |-> "create_employee", employee |-> employee])

CommitCreateEmployee(w) ==
    /\ sessions[w].op = "create_employee"
    /\ Commit(w, insert_employee(db, sessions[w].employee))

\* the row is the one the query read: by the commit it may be gone, and the
\* DELETE then matches no row, which the session reports as a warning
BeginDeactivateEmployee(w) ==
    \E token \in Callers, id \in Ids, reason \in Reasons :
        LET check == deactivate_employee_check(db, token, id) IN
        Open(w, check,
             [op |-> "deactivate_employee", reason |-> reason,
              db_employee |-> IF check.resp.body = <<>> THEN <<>>
                              ELSE check.resp.body[1]])

CommitDeactivateEmployee(w) ==
    /\ sessions[w].op = "deactivate_employee"
    /\ Commit(w, archive_employee(
                     db, ArchivedEmployee(sessions[w].db_employee,
                                          sessions[w].reason),
                     sessions[w].db_employee))

BeginCreateTrucker(w) ==
    \E token \in Callers, trucker \in TruckerCreates :
        Open(w, create_trucker_check(db, token, trucker),
             [op |-> "create_trucker", trucker |-> trucker])

CommitCreateTrucker(w) ==
    /\ sessions[w].op = "create_trucker"
    /\ Commit(w, insert_trucker(db, sessions[w].trucker))

BeginDeactivateTrucker(w) ==
    \E token \in Callers, id \in Ids, reason \in Reasons :
        LET check == deactivate_trucker_check(db, token, id) IN
        Open(w, check,
             [op |-> "deactivate_trucker", reason |-> reason,
              db_trucker |-> IF check.resp.body = <<>> THEN <<>>
                             ELSE check.resp.body[1]])

CommitDeactivateTrucker(w) ==
    /\ sessions[w].op = "deactivate_trucker"
    /\ Commit(w, archive_trucker(
                     db, ArchivedTrucker(sessions[w].db_trucker,
                                         sessions[w].reason),
                     sessions[w].db_trucker))

\* a request that only reads sees the store between two commits
Reader(w) ==
    /\ sessions[w] = Idle
    /\ \E token \in Callers, id \in Ids :
          \/ Serve(read_employee(db, token, id))
          \/ Serve(read_trucker(db, token, id))

NextWorkers ==
    \E w \in Workers :
        \/ BeginCreateEmployee(w) \/ CommitCreateEmployee(w)
        \/ BeginDeactivateEmployee(w) \/ CommitDeactivateEmployee(w)
        \/ BeginCreateTrucker(w) \/ CommitCreateTrucker(w)
        \/ BeginDeactivateTrucker(w) \/ CommitDeactivateTrucker(w)
        \/ Reader(w)

SpecWorkers == InitWorkers /\ [][NextWorkers]_vars

(***************************************************************************)
(* The properties.  Those that speak of a call apply the handler to the    *)
(* store of every reachable state, for every input of the run.             *)
(***************************************************************************)
Admin == TokenOf("root")

\* the fields of a live row that its snapshot shows; is_active is not one:
\* lines 194 and 264 write False whatever the row holds
EmployeeDisplay ==
    { "first_name", "last_name", "email", "phone_number", "position",
      "registration_date" }

TruckerDisplay ==
    { "first_name", "last_name", "email", "phone_number",
      "driver_license_number", "province_of_issue", "truck_id_number",
      "company_name", "registration_date" }

DocumentDisplay ==
    { "document_type", "file_path", "upload_date", "is_verified",
      "verification_date", "verified_by", "employee_id", "trucker_id" }

\* the snapshots of an identity
Snapshots(archive, id) == { a \in archive : a.original_id = id }

\* row has left the live table, and the archive holds one snapshot of it
MovedTo(live, archive, row, Display) ==
    /\ Lookup(live, row.id) = {}
    /\ Cardinality(Snapshots(archive, row.id)) = 1
    /\ \A a \in Snapshots(archive, row.id) :
          /\ \A f \in Display : a[f] = row[f]
          /\ a.archive_date # NoDate

\* an archived identity stays out of the live table, under one snapshot
StaysMoved(live, archive) ==
    \A a \in archive :
        /\ Lookup(live, a.original_id) = {}
        /\ Cardinality(Snapshots(archive, a.original_id)) = 1
        /\ a.archive_date # NoDate

Both(live, archive) == { r \in live : Snapshots(archive, r.id) # {} }

LiveEmployeeWith(d, employee) ==
    \E e \in d.employees : e.email = employee.email

LiveTruckerWith(d, trucker) ==
    \E t \in d.truckers :
        \/ trucker.email # None /\ t.email = trucker.email
        \/ t.driver_license_number = trucker.driver_license_number
        \/ /\ trucker.truck_id_number # None
           /\ t.truck_id_number = trucker.truck_id_number

\* C3: a create_employee or create_trucker of an administrator whose email,
\* driver_license_number or truck_id_number equals that of a live row is
\* answered 400 (Conflict) and leaves the store as it was; one whose
\* identifiers are held by no live row, snapshots or not, is answered 200
\* and adds its row.
C3_ConflictAmongLiveOnly ==
    /\ \A employee \in EmployeeCreates :
          LET out == create_employee(db, Admin, employee) IN
          IF LiveEmployeeWith(db, employee)
          THEN out.resp.status = HTTP_400_BAD_REQUEST /\ out.db = db
          ELSE /\ out.resp.status = HTTP_200_OK
               /\ out.db.employees = db.employees \cup {out.resp.body[1]}
    /\ \A trucker \in TruckerCreates :
          LET out == create_trucker(db, Admin, trucker) IN
          IF LiveTruckerWith(db, trucker)
          THEN out.resp.status = HTTP_400_BAD_REQUEST /\ out.db = db
          ELSE /\ out.resp.status = HTTP_200_OK
               /\ out.db.truckers = db.truckers \cup {out.resp.body[1]}

\* no identifier is held by two live rows of a table
NoDuplicates(d) ==
    /\ \A e1, e2 \in d.employees : e1.email = e2.email => e1 = e2
    /\ \A t1, t2 \in d.truckers :
          \/ t1 = t2
          \/ /\ t1.driver_license_number # t2.driver_license_number
             /\ t1.email = None \/ t1.email # t2.email
             /\ \/ t1.truck_id_number = None
                \/ t1.truck_id_number # t2.truck_id_number

\* C4: of two creates with one identifier that different server processes
\* have open at once, each past its pre-check, at most one adds a row: no
\* state holds two live rows of a table with the same email, licence number
\* or truck id; and the create that commits second, its identifier by then
\* held by a live row, is answered 400 (Conflict) and adds nothing.
C4_RaceLoserGetsConflict ==
    /\ NoDuplicates(db)
    /\ \A w \in Workers :
          /\ (/\ sessions[w].op = "create_employee"
              /\ LiveEmployeeWith(db, sessions[w].employee))
             => LET out == insert_employee(db, sessions[w].employee) IN
                out.resp.status = HTTP_400_BAD_REQUEST /\ out.db = db
          /\ (/\ sessions[w].op = "create_trucker"
              /\ LiveTruckerWith(db, sessions[w].trucker))
             => LET out == insert_trucker(db, sessions[w].trucker) IN
                out.resp.status = HTTP_400_BAD_REQUEST /\ out.db = db

\* what the gate owes a credential on a route of the given level: 401 to
\* none, an invalid or expired one, one without a subject or of no user;
\* 400 to an inactive user; 403 to a user of an administrator route who is
\* no administrator; 200 stands for admission
GateStatus(token, level) ==
    LET holder == { u \in UserTable : u.username = token.sub } IN
    IF token.kind # "valid" \/ token.sub = None \/ holder = {}
    THEN HTTP_401_UNAUTHORIZED
    ELSE IF \E u \in holder : ~ u.is_active THEN HTTP_400_BAD_REQUEST
    ELSE IF level = "admin" /\ \E u \in holder : ~ u.is_admin
    THEN HTTP_403_FORBIDDEN
    ELSE HTTP_200_OK

\* a refused call answers what the gate owes, leaves the store and returns
\* no row; an admitted one is not answered as a refusal
FailsClosed(d, out, owed) ==
    LET resp == out.resp IN
    IF owed # HTTP_200_OK
    THEN /\ resp.status = owed
         /\ out.db = d
         /\ resp.body = <<>>
    ELSE /\ resp.status \notin { HTTP_401_UNAUTHORIZED, HTTP_403_FORBIDDEN }
         /\ resp.detail # "Inactive user"

\* the routes that write employees and truckers, or update or archive
\* documents
WritesFailClosed(token, owed) ==
    /\ \A employee \in EmployeeCreates :
          FailsClosed(db, create_employee(db, token, employee), owed)
    /\ \A trucker \in TruckerCreates :
          FailsClosed(db, create_trucker(db, token, trucker), owed)
    /\ \A id \in Ids :
          /\ \A update_data \in EmployeeUpdates :
                FailsClosed(db, update_employee(db, token, id, update_data),
                            owed)
          /\ \A update_data \in TruckerUpdates :
                FailsClosed(db, update_trucker(db, token, id, update_data),
                            owed)
          /\ \A update_data \in DocumentUpdates :
                FailsClosed(db, update_document(db, token, id, update_data),
                            owed)
          /\ \A reason \in Reasons :
                /\ FailsClosed(db, deactivate_employee(db, token, id, reason),
                               owed)
                /\ FailsClosed(db, deactivate_trucker(db, token, id, reason),
                               owed)
                /\ FailsClosed(db, deactivate_document(db, token, id, reason),
                               owed)

\* the reads of users by id and as a list, and the exports
AdminReadsFailClosed(token, owed) ==
    /\ \A id \in Ids :
          FailsClosed(db, read_user_by_id(db, token, id), owed)
    /\ \A page \in Pages :
          FailsClosed(db, read_users(db, token, page.skip, page.limit), owed)
    /\ FailsClosed(db, export_employees_to_csv(db, token), owed)
    /\ FailsClosed(db, export_truckers_to_csv(db, token), owed)

\* the reads, the search, the analytics and the create of a document
UserRoutesFailClosed(token, owed) ==
    /\ FailsClosed(db, read_users_me(db, token), owed)
    /\ \A id \in Ids :
          /\ FailsClosed(db, read_employee(db, token, id), owed)
          /\ FailsClosed(db, read_trucker(db, token, id), owed)
          /\ FailsClosed(db, read_document(db, token, id), owed)
    /\ \A page \in Pages :
          /\ FailsClosed(db, read_employees(db, token, page.skip, page.limit),
                         owed)
          /\ FailsClosed(db, read_truckers(db, token, page.skip, page.limit),
                         owed)
          /\ FailsClosed(db, read_documents(db, token, page.skip, page.limit),
                         owed)
    /\ \A query \in Queries :
          FailsClosed(db, live_search(db, token, query), owed)
    /\ FailsClosed(db, get_compliance_data(db, token), owed)
    /\ FailsClosed(db, get_employee_growth(db, token), owed)
    /\ FailsClosed(db, get_trucker_distribution(db, token), owed)
    /\ FailsClosed(db, get_business_impact(db, token), owed)
    /\ \A document \in DocumentCreates :
          FailsClosed(db, create_document(db, token, document), owed)

\* C5: on every store and for every credential, each route that creates,
\* updates or archives an employee or trucker, updates or archives a
\* document, reads users by id or as a list, or exports, answers 401 to a
\* missing, invalid or expired credential, 400 to an inactive account and
\* 403 to an active user who is no administrator, and in each of these cases
\* leaves the store as it was and returns no row; the reads, the search, the
\* analytics and create_document do the same for 401 and 400 and admit every
\* active user.
C5_GateFailsClosed ==
    \A token \in Tokens :
        LET admin == GateStatus(token, "admin")
            user  == GateStatus(token, "user") IN
        /\ WritesFailClosed(token, admin)
        /\ AdminReadsFailClosed(token, admin)
        /\ UserRoutesFailClosed(token, user)

\* a live employee whose update the gate refuses to an active user who is
\* no administrator and performs for an administrator, and a document on
\* the store
C5_Witness ==
    /\ db.documents # {}
    /\ \E row \in db.employees, update_data \in EmployeeUpdates :
          /\ update_employee(db, TokenOf("staff"), row.id, update_data)
                 .resp.status = HTTP_403_FORBIDDEN
          /\ update_employee(db, Admin, row.id, update_data).db # db

\* C6: every live document has a verification_date if and only if its
\* is_verified is true, after create_document and after every
\* update_document, whatever the payload holds.
C6_DateIffVerified ==
    \A x \in db.documents :
        (x.verification_date # NoDate) <=> (x.is_verified = TRUE)

\* C7: an update_document of an administrator with is_verified = true on a
\* live document that is not verified stores it with verification_date =
\* today; one with is_verified = false stores it with verification_date and
\* verified_by null, whatever else the payload holds.
C7_VerificationEffect ==
    \A x \in db.documents, update_data \in DocumentUpdates :
        "is_verified" \in DOMAIN update_data =>
            LET out == update_document(db, Admin, x.id, update_data)
                new == out.resp.body[1] IN
            /\ out.resp.status = HTTP_200_OK
            /\ new \in out.db.documents
            /\ (update_data.is_verified /\ ~ x.is_verified)
                   => new.verification_date = today
            /\ ~ update_data.is_verified
                   => /\ new.verification_date = NoDate
                      /\ new.verified_by = None

\* the tables a call on a missing id must leave alone: all of them
Untouched(d, out) ==
    /\ out.resp.status = HTTP_404_NOT_FOUND
    /\ out.db = d

\* C8: for every id that no live row of a table holds, ids of snapshots
\* among them, the get, every update and the archive of that id by an
\* administrator answer 404, and the update and the archive leave every
\* live table and every archive table as it was.
C8_NotFoundBeforeAnyWrite ==
    \A id \in Ids :
        /\ Lookup(db.employees, id) = {} =>
              /\ read_employee(db, Admin, id).resp.status = HTTP_404_NOT_FOUND
              /\ \A update_data \in EmployeeUpdates :
                    Untouched(db, update_employee(db, Admin, id, update_data))
              /\ \A reason \in Reasons :
                    Untouched(db, deactivate_employee(db, Admin, id, reason))
        /\ Lookup(db.truckers, id) = {} =>
              /\ read_trucker(db, Admin, id).resp.status = HTTP_404_NOT_FOUND
              /\ \A update_data \in TruckerUpdates :
                    Untouched(db, update_trucker(db, Admin, id, update_data))
              /\ \A reason \in Reasons :
                    Untouched(db, deactivate_trucker(db, Admin, id, reason))
        /\ Lookup(db.documents, id) = {} =>
              /\ read_document(db, Admin, id).resp.status = HTTP_404_NOT_FOUND
              /\ \A update_data \in DocumentUpdates :
                    Untouched(db, update_document(db, Admin, id, update_data))
              /\ \A reason \in Reasons :
                    Untouched(db, deactivate_document(db, Admin, id, reason))

\* a document archived: its id names a snapshot and no live row
C8_Witness ==
    \E a \in db.archived_documents :
        /\ a.original_id \in Ids
        /\ Lookup(db.documents, a.original_id) = {}

\* the row of an update holds the payload's fields as the payload gives
\* them and its other fields as they were; Effect names the fields that a
\* side effect may set, with the value it owes them
Framed(old, new, update_data, Effect) ==
    \A f \in DOMAIN old :
        new[f] = IF f \in DOMAIN update_data THEN update_data[f]
                 ELSE IF f \in DOMAIN Effect THEN Effect[f]
                 ELSE old[f]

\* what lines 309-314 owe the fields outside the payload
OwedByVerification(old, update_data) ==
    IF "is_verified" \notin DOMAIN update_data THEN <<>>
    ELSE IF ~ update_data.is_verified
    THEN [verification_date |-> NoDate, verified_by |-> None]
    ELSE IF old.verification_date = NoDate
    THEN [verification_date |-> today]
    ELSE <<>>

\* the store after an update of row old of the named table: the row
\* replaced by one row framed as above, or nothing changed at all
OnlyRowChanged(d, out, table, old, update_data, Effect) ==
    \/ out.db = d
    \/ /\ out.resp.status = HTTP_200_OK
       /\ \E new \in out.db[table] :
             /\ Framed(old, new, update_data, Effect)
             /\ out.db = [d EXCEPT ![table] = (@ \ {old}) \cup {new}]

\* C9: an update of a live employee, trucker or document by an
\* administrator leaves in the row every field that its payload does not
\* name (for a document, but for verification_date and verified_by as the
\* verification side effect sets them), gives the named fields the
\* payload's values, and leaves every other live row, every snapshot and
\* every other table as it was.
C9_UpdateFrame ==
    /\ \A old \in db.employees, update_data \in EmployeeUpdates :
          OnlyRowChanged(db, update_employee(db, Admin, old.id, update_data),
                         "employees", old, update_data, <<>>)
    /\ \A old \in db.truckers, update_data \in TruckerUpdates :
          OnlyRowChanged(db, update_trucker(db, Admin, old.id, update_data),
                         "truckers", old, update_data, <<>>)
    /\ \A old \in db.documents, update_data \in DocumentUpdates :
          /\ update_document(db, Admin, old.id, update_data).resp.status
                 = HTTP_200_OK
          /\ OnlyRowChanged(db,
                            update_document(db, Admin, old.id, update_data),
                            "documents", old, update_data,
                            OwedByVerification(old, update_data))

\* an employee updated in first_name and is_active alone, beside another
\* live row
C9_Witness ==
    \E e \in db.employees :
        /\ e.first_name = "Bea"
        /\ e.last_name = "Smith"
        /\ ~ e.is_active
        /\ \E other \in db.employees : other.id # e.id

\* C10: every step of every request keeps every snapshot of an employee,
\* trucker or document, with all its field values, in its archive table.
C10_ArchivesAppendOnly ==
    [][/\ db.archived_employees \subseteq db'.archived_employees
       /\ db.archived_truckers \subseteq db'.archived_truckers
       /\ db.archived_documents \subseteq db'.archived_documents]_vars

\* two snapshots of employees under one email: a row archived, its email
\* taken by a new row, and that row archived
C10_Witness ==
    \E a1, a2 \in db.archived_employees :
        /\ a1.original_id # a2.original_id
        /\ a1.email = a2.email

\* C11: every live document names exactly one parent, an employee or a
\* trucker and not both and not neither, and that parent is a live row,
\* after every create_document, the ones with both or with neither parent id
\* among them, and after the archive of the parent.
C11_OneLiveParent ==
    \A x \in db.documents :
        \/ /\ x.employee_id # NoId
           /\ x.trucker_id = NoId
           /\ Lookup(db.employees, x.employee_id) # {}
        \/ /\ x.employee_id = NoId
           /\ x.trucker_id # NoId
           /\ Lookup(db.truckers, x.trucker_id) # {}

\* the limit of a list route that is given none
DefaultLimit == 100

Offsets == 0 .. MaxRows
Limits  == (1 .. MaxRows) \cup { DefaultLimit }

\* the window [skip, skip + limit) of a list, its places counted from 0
Slice(whole, skip, limit) ==
    LET left == IF Len(whole) > skip THEN Len(whole) - skip ELSE 0
        n    == IF limit < left THEN limit ELSE left IN
    [i \in 1 .. n |-> whole[skip + i]]

\* whole holds every row of the set once and nothing else
Lists(whole, rows) ==
    /\ Len(whole) = Cardinality(rows)
    /\ { whole[i] : i \in 1 .. Len(whole) } = rows

\* first and second together hold every row of the list once
Partition(first, second, whole) ==
    /\ Len(first) = 1
    /\ Len(second) = 1
    /\ first \o second = whole

\* C12: read_employees and read_truckers return the window
\* [skip, skip + limit) of one list per table, the list that holds each live
\* row with is_active true once and no inactive or archived row; over two
\* active rows (skip 0, limit 1) and then (skip 1, limit 1), the store not
\* written in between, return each of the two rows once.
C12_ListWindows ==
    LET employees == read_employees(db, Admin, 0, DefaultLimit).resp.body
        truckers  == read_truckers(db, Admin, 0, DefaultLimit).resp.body IN
    /\ Lists(employees, { e \in db.employees : e.is_active })
    /\ Lists(truckers, { t \in db.truckers : t.is_active })
    /\ \A skip \in Offsets, limit \in Limits :
          /\ read_employees(db, Admin, skip, limit).resp.body
                 = Slice(employees, skip, limit)
          /\ read_truckers(db, Admin, skip, limit).resp.body
                 = Slice(truckers, skip, limit)
    /\ Len(employees) = 2 =>
          Partition(read_employees(db, Admin, 0, 1).resp.body,
                    read_employees(db, Admin, 1, 1).resp.body, employees)
    /\ Len(truckers) = 2 =>
          Partition(read_truckers(db, Admin, 0, 1).resp.body,
                    read_truckers(db, Admin, 1, 1).resp.body, truckers)

\* two active truckers, listed one to a page
C12_Witness ==
    /\ Cardinality({ t \in db.truckers : t.is_active }) = 2
    /\ read_truckers(db, Admin, 0, 1).resp.body
           # read_truckers(db, Admin, 1, 1).resp.body

\* text holds query, letter case apart
Contains(text, query) ==
    /\ text # None
    /\ LET t == Spell[text]
           q == Spell[query] IN
       \E k \in 0 .. Len(t) :
           /\ k + Len(q) <= Len(t)
           /\ \A i \in 1 .. Len(q) : Fold(t[k + i]) = Fold(q[i])

EmployeeMatches(d, query) ==
    { e \in d.employees :
        /\ e.is_active
        /\ \/ Contains(e.first_name, query)
           \/ Contains(e.last_name, query)
           \/ Contains(e.email, query) }

TruckerMatches(d, query) ==
    { t \in d.truckers :
        /\ t.is_active
        /\ \/ Contains(t.first_name, query)
           \/ Contains(t.last_name, query)
           \/ Contains(t.email, query)
           \/ Contains(t.driver_license_number, query)
           \/ Contains(t.truck_id_number, query) }

\* the hits of one type are rows of the matches, at most 10 and, when the
\* matches are at most 10, all of them
HitsOf(hits, type, matches) ==
    LET found == { i \in 1 .. Len(hits) : hits[i].type = type } IN
    /\ Cardinality(found) <= 10
    /\ \A i \in found : hits[i].details \in matches
    /\ Cardinality(matches) <= 10 =>
          \A row \in matches : \E i \in found : hits[i].details = row

\* C13: live_search returns the hits on employees before the hits on
\* truckers, at most 10 of each; every hit is a live row with is_active true
\* of which a searched field contains the query, letter case apart; when at
\* most 10 rows of a type match, every one of them is a hit.
C13_SearchHits ==
    \A query \in Queries :
        LET hits == live_search(db, Admin, query).resp.body IN
        /\ \A i, j \in 1 .. Len(hits) :
              (hits[i].type = "trucker" /\ hits[j].type = "employee") => j < i
        /\ HitsOf(hits, "employee", EmployeeMatches(db, query))
        /\ HitsOf(hits, "trucker", TruckerMatches(db, query))

\* the least-squares line through (i - 1, counts[i]) read at Len(counts), as
\* the fraction <<numerator, denominator>> with a positive denominator: the
\* mean of the counts plus the slope times the distance of Len(counts) from
\* the mean index
Fit(counts) ==
    LET n == Len(counts)
        sx == Sum([i \in 1 .. n |-> i - 1])
        sy == Sum(counts)
        \* deviations from the means, n times over
        covariance ==
            Sum([i \in 1 .. n |-> (n * (i - 1) - sx) * (n * counts[i] - sy)])
        variance ==
            Sum([i \in 1 .. n |-> (n * (i - 1) - sx) * (n * (i - 1) - sx)]) IN
    << sy * variance + covariance * (n * n - sx), n * variance >>

\* whole is a nearest integer of the fraction
Nearest(fraction, whole) ==
    LET off == fraction[1] - whole * fraction[2] IN
    /\ 2 * off <= fraction[2]
    /\ -2 * off <= fraction[2]

GrowthOf(d) == get_employee_growth(d, Admin).resp.body[1]

CountsOf(monthly_growth) ==
    [i \in 1 .. Len(monthly_growth) |-> monthly_growth[i].count]

\* C14: the growth report holds one bucket per registration month of the
\* live employees, in the order of the months, each with the number of
\* employees of that month; the average is the sum of the counts over the
\* number of buckets, 0.0 with none; with fewer than 2 buckets nothing is
\* projected; with 2 or more the projection is the least-squares line at the
\* next index rounded to the nearest integer, and 0 where that is negative.
C14_GrowthProjection ==
    LET out == GrowthOf(db)
        monthly_growth == out.monthly_growth
        n == Len(monthly_growth)
        counts == CountsOf(monthly_growth)
        average == out.average_monthly_growth IN
    /\ { monthly_growth[i].month : i \in 1 .. n }
          = { MonthOf(e.registration_date) : e \in db.employees }
    /\ \A i, j \in 1 .. n :
          i < j => monthly_growth[i].month < monthly_growth[j].month
    /\ \A i \in 1 .. n :
          counts[i] = Cardinality(HiredIn(db, monthly_growth[i].month))
    /\ average[2] > 0
    /\ IF n = 0 THEN average[1] = 0
       ELSE average[1] * n = Sum(counts) * average[2]
    /\ n < 2 => out.projected_next_month = <<>>
    /\ n >= 2 =>
          \E whole \in -(MaxCount * MaxMonth) .. 2 * MaxCount * MaxMonth :
              /\ Nearest(Fit(counts), whole)
              /\ out.projected_next_month
                    = << IF whole > 0 THEN whole ELSE 0 >>

=============================================================================
